---------------------------- MODULE Spec2Model ----------------------------
(***************************************************************************)
(* State-machine model of the collision_avoid planner node                 *)
(* (src/src/trajectory_planner/src/trajectory_planner.cpp).                *)
(*                                                                         *)
(* Units.  Lengths of the depth pipeline are integers in depth units       *)
(* (1/5000 m, the unit of a uint16 range sample); one voxel is Res depth   *)
(* units.  Goal and vehicle positions are integers in tenths of a metre,   *)
(* times in tenths of a second.  Camera intrinsics are in hundredths of a  *)
(* pixel.  Vectors are 3-tuples.                                           *)
(***************************************************************************)
EXTENDS Integers, Sequences, FiniteSets, TLC

VARIABLES
    pc,                  \* main(): "sleep" (in r.sleep()) or "spin" (in ros::spinOnce())
    todo,                \* callbacks spinOnce still has to call in this run
    queue,               \* messages received and not yet handled, in arrival order
    cbpc,                \* position inside depth_cam_cb: "idle", "while", "insert"
    cloud1,              \* depth_cam_cb local: the projected point cloud
    origin,              \* depth_cam_cb local: the sensor origin in the world frame
    initialized,         \* global `initialized`
    edrb,                \* the ring buffer behind global `edrb`
    endpoint_position,   \* global `endpoint_position`
    local_position,      \* global `local_position`
    traj,                \* global `traj`
    spline_optimization, \* global `spline_optimization`
    published,           \* number of messages published on setpoint_pos_pub
    allocs,              \* number of ring buffers constructed so far
    arrived,             \* history: messages received so far, per topic
    handled,             \* history: the messages whose callback ran, in order
    dropped,             \* history: ids of the messages a full queue discarded
    ran,                 \* history: callbacks the current spinOnce has called, per topic
    seenAt,              \* history: world voxel at which each occupied slot was observed
    rotated,             \* history: slots whose layer was reset while they were occupied
    before,              \* history: the volume when the latest ingesting depth_cam_cb began
    moves,               \* history: moveVolume calls of the latest ingesting depth_cam_cb
    called,              \* history: number of setOffset and insertPointCloud calls so far
    \* The flight node (takeoff_n_land.cpp)
    fpc,                 \* position of main() of the flight node
    loop_i,              \* loop counter `i` of the running function
    loop_j,              \* loop counter `j` of the running function
    ok,                  \* ros::ok()
    fcu,                 \* the flight controller: [connected, armed, mode]
    current_state,       \* global `current_state`
    local_position_NWU,  \* global `local_position` of the flight node
    marker_position,     \* global `marker_position`
    marker_age,          \* ros::Time::now() - marker_position.header.stamp, in rate periods
    setpoint_pos_NWU,    \* global `setpoint_pos_NWU`
    pose_NWU,            \* `pose_NWU`, the pose takeOff assigns
    elapsed,             \* ros::Time::now() - last_request, in rate periods
    cycle,               \* history: what the latest rate cycle published and requested
    primed,              \* history: setpoints published so far, counted up to PrimingSetpoints
    quiet                \* history: rate periods since the latest set_mode or arming request (0: none yet)

vars == <<pc, todo, queue, cbpc, cloud1, origin, initialized, edrb,
          endpoint_position, local_position, traj, spline_optimization,
          published, allocs, arrived, handled, dropped, ran, seenAt,
          rotated, before, moves, called,
          fpc, loop_i, loop_j, ok, fcu, current_state, local_position_NWU,
          marker_position, marker_age, setpoint_pos_NWU, pose_NWU, elapsed,
          cycle, primed, quiet>>

\* The variables of the flight node.
flight == <<fpc, loop_i, loop_j, ok, fcu, current_state, local_position_NWU,
            marker_position, marker_age, setpoint_pos_NWU, pose_NWU, elapsed,
            cycle, primed, quiet>>

\* The variables of the planner node.
planner == <<pc, todo, queue, cbpc, cloud1, origin, initialized, edrb,
             endpoint_position, local_position, traj, spline_optimization,
             published, allocs, arrived, handled, dropped, ran, seenAt,
             rotated, before, moves, called>>

-----------------------------------------------------------------------------
(* Program constants *)

POW == 6
num_opt_points == 7
dt == 5
max_velocity == 3
max_acceleration == 5
resolution == 1
distance_threshold == 3
DepthScale == 5000
Stride == 4
fx == 45782
fy == 45782
cx == 24932
cy == 17950
QueueSize == 10

N == 2 ^ POW
N_2 == N \div 2
Res == (DepthScale * resolution) \div 10
limits == <<max_velocity, max_acceleration, 0, 0>>

(* Bounds of the model *)

MaxArrivals == 3
MaxBurst == 12
MaxSide == 5
MaxShift == 2

-----------------------------------------------------------------------------
(* Vectors *)

Axes == 1..3
Zero3 == <<0, 0, 0>>
VSub(a, b) == [i \in Axes |-> a[i] - b[i]]
Abs(x) == IF x < 0 THEN -x ELSE x
Sign(x) == IF x > 0 THEN 1 ELSE IF x < 0 THEN -1 ELSE 0
Max2(a, b) == IF a > b THEN a ELSE b
MaxNorm(d) == Max2(Abs(d[1]), Max2(Abs(d[2]), Abs(d[3])))


-----------------------------------------------------------------------------
(* Depth projection: depth_cam_cb, lines 128-158.                          *)
(* A frame is [cv, tf, t, rot, cols, rows, data]: cv and tf say whether    *)
(* toCvShare and lookupTransform succeed, t is the translation of T_w_c in *)
(* depth units, rot its rotation (a diagonal matrix of signs), data the    *)
(* row-major uint16 samples.                                               *)

\* p = (val*(u-cx)/fx, val*(v-cy)/fy, val), then p = T_w_c * p.  The rotation
\* is applied before the quotient is rounded down, so that the voxel of the
\* result is the voxel of the real-valued point.
WorldPoint(f, u, v, uval) ==
    <<f.t[1] + ((f.rot[1] * uval * (100 * u - cx)) \div fx),
      f.t[2] + ((f.rot[2] * uval * (100 * v - cy)) \div fy),
      f.t[3] + f.rot[3] * uval>>

\* Mutant of Visited: the loops stop when a full stride no longer fits,
\* for(v = 0; v + 4 <= rows; v += 4).
VisitedFloor(n) == n \div Stride

\* Number of rows (columns) the loops for(v = 0; v < rows; v += 4) visit.
Visited(n) == (n + Stride - 1) \div Stride

\* The first k iterations of the nested loops, u outer and v inner.
RECURSIVE CloudUpTo(_, _)
CloudUpTo(f, k) ==
    IF k = 0 THEN <<>>
    ELSE LET j    == k - 1
             u    == Stride * (j \div Visited(f.rows))
             v    == Stride * (j % Visited(f.rows))
             uval == f.data[v * f.cols + u + 1]
         IN  IF uval > 0
             THEN Append(CloudUpTo(f, j), WorldPoint(f, u, v, uval))
             ELSE CloudUpTo(f, j)

Cloud(f) == CloudUpTo(f, Visited(f.cols) * Visited(f.rows))

\* origin = (T_w_c * (0,0,0,1)).head<3>()
Origin(f) == f.t

-----------------------------------------------------------------------------
(* The Distance Volume (ewok::EuclideanDistanceRingBuffer<POW>), modelled  *)
(* from the specification: a cube of N^3 voxel slots addressed             *)
(* toroidally.  The buffer is [offset, occupied, free]: offset is the      *)
(* world voxel at logical index (0,0,0); occupied and free are sets of     *)
(* slots; every other slot is unknown.                                     *)

\* The (2^POW)^3 voxel slots of the buffer.
Slots == (0 .. N - 1) \X (0 .. N - 1) \X (0 .. N - 1)

EmptyBuffer == [offset |-> Zero3, occupied |-> {}, free |-> {}]

\* worldToIndex: integer bucketing at `resolution` granularity.
getIdx(point) == [i \in Axes |-> point[i] \div Res]

\* The storage slot of a world voxel: indices wrap modulo the edge length.
Slot(w) == [i \in Axes |-> w[i] % N]

\* A world voxel is representable when it lies in [offset, offset + N).
insideVolume(b, w) == \A i \in Axes : w[i] - b.offset[i] \in 0 .. N - 1

\* The world voxel a slot presently stands for.
WorldOf(b, s) == [i \in Axes |-> b.offset[i] + ((s[i] - b.offset[i]) % N)]

setOffset(b, idx) == [b EXCEPT !.offset = idx]

\* currentCenter: the world voxel at the geometric centre of the volume.
getVolumeCenter(b) == [i \in Axes |-> b.offset[i] + N_2]

\* One shift step: on every axis with a non-zero direction the offset moves
\* by one layer and the layer that rotates out is reset to unknown.
Slice(b, dir, i) == IF dir[i] > 0 THEN b.offset[i] + N ELSE b.offset[i] - 1

Stale(b, dir, s) == \E i \in Axes : dir[i] # 0 /\ s[i] = Slice(b, dir, i) % N

moveVolume(b, dir) ==
    [offset   |-> [i \in Axes |-> b.offset[i] + Sign(dir[i])],
     occupied |-> {s \in b.occupied : ~Stale(b, dir, s)},
     free     |-> {s \in b.free : ~Stale(b, dir, s)}]

\* The voxels on the ray from a to b, both ends included.
Line(a, b) ==
    LET d == VSub(b, a)
        n == MaxNorm(d)
    IN  IF n = 0 THEN {a}
        ELSE {[i \in Axes |-> a[i] + ((2 * d[i] * k + n) \div (2 * n))] : k \in 0 .. n}

\* The voxels of the cloud's points that lie inside the volume.
Hits(b, cloud) ==
    {w \in {getIdx(cloud[k]) : k \in 1 .. Len(cloud)} : insideVolume(b, w)}

\* The voxels the rays from the sensor to those points pass through.
Carved(b, cloud, o) ==
    UNION {Line(getIdx(o), h) : h \in Hits(b, cloud)} \ Hits(b, cloud)

\* insert: voxels of points inside the volume become occupied, voxels on
\* the rays to them become free.
insertPointCloud(b, cloud, o) ==
    LET hit  == {Slot(w) : w \in Hits(b, cloud)}
        miss == {Slot(w) : w \in Carved(b, cloud, o)}
    IN  [offset   |-> b.offset,
         occupied |-> (b.occupied \ miss) \cup hit,
         free     |-> (b.free \ hit) \cup miss]

-----------------------------------------------------------------------------
(* Seed Path Planner and Spline State *)

NoTraj == [set |-> FALSE]
NoSpline == [set |-> FALSE]

\* Polynomial3DOptimization<10>::computeTrajectory on the path <<start, end>>,
\* modelled from the specification: a zero-distance path is infeasible.
computeTrajectory(start_point, end_point, lim) ==
    [set |-> TRUE, feasible |-> start_point # end_point,
     start |-> start_point, goal |-> end_point, limits |-> lim]

\* Mutant of NewSpline: setDistanceBuffer(edrb) is forgotten.
NewSplineNoBuffer(seed) ==
    [set |-> TRUE, traj |-> seed, dt |-> dt,
     num_opt_points |-> num_opt_points, distance_buffer |-> "none",
     distance_threshold |-> distance_threshold, limits |-> limits]

\* spline_optimization.reset(new UniformBSpline3DOptimization<6>(traj, dt))
\* followed by the four setters, lines 83-88.
NewSpline(seed) ==
    [set |-> TRUE, traj |-> seed, dt |-> dt,
     num_opt_points |-> num_opt_points, distance_buffer |-> "edrb",
     distance_threshold |-> distance_threshold, limits |-> limits]


-----------------------------------------------------------------------------
(* Subscriptions and the callback queue: main, lines 225-227 and 235-240.  *)
(* A queued message is [topic, id, msg]; id counts the arrivals of its     *)
(* topic.  Each subscription holds at most QueueSize unhandled messages.   *)

Topics == {"goal", "position", "depth"}

Indices(q, topic) == {i \in 1 .. Len(q) : q[i].topic = topic}
Pending(q, topic) == Cardinality(Indices(q, topic))
Ids(q, topic) == {q[i].id : i \in Indices(q, topic)}

Oldest(q, topic) == CHOOSE i \in Indices(q, topic) : \A j \in Indices(q, topic) : i <= j

RemoveAt(q, k) == [i \in 1 .. Len(q) - 1 |-> IF i < k THEN q[i] ELSE q[i + 1]]

\* Mutant of MakeRoom: a new message replaces whatever its subscription holds.
MakeRoomOverwrite(q, topic) == SelectSeq(q, LAMBDA m : m.topic # topic)

\* A subscription whose queue is full discards its oldest message.
MakeRoom(q, topic) ==
    IF Pending(q, topic) >= QueueSize THEN RemoveAt(q, Oldest(q, topic)) ELSE q

\* A message arrives on `topic` while the node sleeps or runs a callback.
Receive(topic, m, budget) ==
    /\ arrived["goal"] + arrived["position"] + arrived["depth"] < budget
    /\ LET room == MakeRoom(queue, topic)
           lost == Ids(queue, topic) \ Ids(room, topic)
           gone == {i \in 1 .. todo : queue[i].topic = topic /\ queue[i].id \in lost}
       IN  /\ queue' = Append(room, [topic |-> topic, id |-> arrived[topic] + 1, msg |-> m])
           /\ todo' = todo - Cardinality(gone)
           /\ dropped' = dropped \cup {<<topic, i>> : i \in lost}
    /\ arrived' = [arrived EXCEPT ![topic] = @ + 1]
    /\ UNCHANGED <<pc, cbpc, cloud1, origin, initialized, edrb, endpoint_position,
                   local_position, traj, spline_optimization, published, allocs,
                   handled, ran, seenAt, rotated, before, moves, called, flight>>

\* Mutant of MayCall: callbacks run on spinner threads of their own.
MayCallAnyTime == TRUE

\* ros::spinOnce() runs on the thread of main: a callback starts only when
\* the previous one has returned.
MayCall == cbpc = "idle"

\* spinOnce calls the callback of the oldest message it has not handled yet.
Calls(topic) ==
    /\ pc = "spin"
    /\ MayCall
    /\ todo > 0
    /\ queue # <<>>
    /\ Head(queue).topic = topic
    /\ queue' = Tail(queue)
    /\ todo' = todo - 1
    /\ handled' = Append(handled, Head(queue))
    /\ ran' = [ran EXCEPT ![topic] = @ + 1]
    /\ UNCHANGED <<pc, published, arrived, dropped, flight>>

\* r.sleep() returns and spinOnce starts on the callbacks available now.
r_sleep ==
    /\ pc = "sleep"
    /\ pc' = "spin"
    /\ todo' = Len(queue)
    /\ UNCHANGED <<queue, cbpc, cloud1, origin, initialized, edrb, endpoint_position,
                   local_position, traj, spline_optimization, published, allocs,
                   arrived, handled, dropped, ran, seenAt, rotated, before, moves,
                   called, flight>>

\* spinOnce returns; the loop body ends without publishing anything.
spinOnce_returns ==
    /\ pc = "spin"
    /\ cbpc = "idle"
    /\ todo = 0
    /\ pc' = "sleep"
    /\ ran' = [t \in Topics |-> 0]
    /\ UNCHANGED <<todo, queue, cbpc, cloud1, origin, initialized, edrb,
                   endpoint_position, local_position, traj, spline_optimization,
                   published, allocs, arrived, handled, dropped, seenAt, rotated,
                   before, moves, called, flight>>

-----------------------------------------------------------------------------
(* Callbacks *)

\* Mutant of endpoint_position_cb: the callback constructs a fresh ring buffer
\* for the new optimizer.
endpoint_position_cb_Realloc ==
    /\ Calls("goal")
    /\ endpoint_position' = Head(queue).msg
    /\ traj' = computeTrajectory(local_position, endpoint_position', limits)
    /\ spline_optimization' = NewSpline(traj')
    /\ edrb' = EmptyBuffer
    /\ allocs' = allocs + 1
    /\ seenAt' = <<>>
    /\ UNCHANGED <<cbpc, cloud1, origin, initialized, local_position, rotated,
                   before, moves, called>>

endpoint_position_cb ==
    /\ Calls("goal")
    /\ endpoint_position' = Head(queue).msg
    /\ traj' = computeTrajectory(local_position, endpoint_position', limits)
    /\ spline_optimization' = NewSpline(traj')
    /\ UNCHANGED <<cbpc, cloud1, origin, initialized, edrb, local_position,
                   allocs, seenAt, rotated, before, moves, called>>

\* Mutant of local_position_cb: the seed is recomputed from every new position.
local_position_cb_Reseed ==
    /\ Calls("position")
    /\ local_position' = Head(queue).msg
    /\ traj' = computeTrajectory(local_position', endpoint_position, limits)
    /\ spline_optimization' = NewSpline(traj')
    /\ UNCHANGED <<cbpc, cloud1, origin, initialized, edrb, endpoint_position,
                   allocs, seenAt, rotated, before, moves, called>>

local_position_cb ==
    /\ Calls("position")
    /\ local_position' = Head(queue).msg
    /\ UNCHANGED <<cbpc, cloud1, origin, initialized, edrb, endpoint_position,
                   traj, spline_optimization, allocs, seenAt, rotated, before,
                   moves, called>>

\* Mutant of FrameDropped: the failed lookup is logged and not returned from.
FrameDroppedCvOnly(f) == ~f.cv

\* Mutant of FirstFrame: the offset is set directly on every frame.
FirstFrameAlways == TRUE

\* The two early returns of depth_cam_cb: toCvShare or lookupTransform throws.
FrameDropped(f) == ~f.cv \/ ~f.tf

\* if(!initialized), line 162
FirstFrame == ~initialized

\* Mutant of depth_cam_cb: the first-frame branch forgets `initialized = true`.
depth_cam_cb_NoFlag ==
    /\ Calls("depth")
    /\ LET f == Head(queue).msg
       IN  IF FrameDropped(f)
           THEN UNCHANGED <<cbpc, cloud1, origin, initialized, edrb, before,
                            moves, called>>
           ELSE /\ cloud1' = Cloud(f)
                /\ origin' = Origin(f)
                /\ before' = edrb
                /\ moves' = 0
                /\ IF FirstFrame
                   THEN /\ edrb' = setOffset(edrb, getIdx(origin'))
                        /\ called' = [called EXCEPT !.setOffset = @ + 1]
                        /\ cbpc' = "insert"
                        /\ UNCHANGED initialized
                   ELSE /\ cbpc' = "while"
                        /\ UNCHANGED <<initialized, edrb, called>>
    /\ UNCHANGED <<endpoint_position, local_position, traj, spline_optimization,
                   allocs, seenAt, rotated>>

\* depth_cam_cb up to the test of `initialized`: lines 92-172 and 175-179.
depth_cam_cb ==
    /\ Calls("depth")
    /\ LET f == Head(queue).msg
       IN  IF FrameDropped(f)
           THEN UNCHANGED <<cbpc, cloud1, origin, initialized, edrb, before,
                            moves, called>>
           ELSE /\ cloud1' = Cloud(f)
                /\ origin' = Origin(f)
                /\ before' = edrb
                /\ moves' = 0
                /\ IF FirstFrame
                   THEN /\ edrb' = setOffset(edrb, getIdx(origin'))
                        /\ initialized' = TRUE
                        /\ called' = [called EXCEPT !.setOffset = @ + 1]
                        /\ cbpc' = "insert"
                   ELSE /\ cbpc' = "while"
                        /\ UNCHANGED <<initialized, edrb, called>>
    /\ UNCHANGED <<endpoint_position, local_position, traj, spline_optimization,
                   allocs, seenAt, rotated>>

\* Mutant of Diff: the difference is taken to the offset of the volume, not
\* to its centre.
DiffFromOffset == VSub(getIdx(origin), edrb.offset)

\* diff = origin_idx - edrb->getVolumeCenter()
Diff == VSub(getIdx(origin), getVolumeCenter(edrb))

\* One iteration of while(diff.array().any()): lines 181-188.
depth_cam_cb_while ==
    /\ cbpc = "while"
    /\ Diff # Zero3
    /\ edrb' = moveVolume(edrb, Diff)
    /\ seenAt' = [s \in edrb'.occupied |-> seenAt[s]]
    /\ rotated' = rotated \cup (edrb.occupied \ edrb'.occupied)
    /\ moves' = moves + 1
    /\ UNCHANGED <<pc, todo, queue, cbpc, cloud1, origin, initialized,
                   endpoint_position, local_position, traj, spline_optimization,
                   published, allocs, arrived, handled, dropped, ran, before,
                   called, flight>>

\* The volume is where line 196 finds it.
AtInsert == cbpc = "insert" \/ (cbpc = "while" /\ Diff = Zero3)

\* edrb->insertPointCloud(cloud1, origin) and the return: lines 196-211.
depth_cam_cb_insert ==
    /\ AtInsert
    /\ edrb' = insertPointCloud(edrb, cloud1, origin)
    /\ seenAt' = [s \in edrb'.occupied |->
                    IF s \in {Slot(w) : w \in Hits(edrb, cloud1)}
                    THEN WorldOf(edrb, s) ELSE seenAt[s]]
    /\ cbpc' = "idle"
    /\ cloud1' = <<>>
    /\ origin' = Zero3
    /\ called' = [called EXCEPT !.insertPointCloud = @ + 1]
    /\ UNCHANGED <<pc, todo, queue, initialized, endpoint_position, local_position,
                   traj, spline_optimization, published, allocs, arrived, handled,
                   dropped, ran, rotated, before, moves, flight>>

-----------------------------------------------------------------------------
(* Inputs *)

\* 9 x 2 samples; the loops read (0,0), (4,0) and (8,0): a far return, a
\* near return and no return.
Image == <<20000, 9999, 9999, 9999, 100, 9999, 9999, 9999, 0,
           9999, 9999, 9999, 9999, 9999, 9999, 9999, 9999, 9999>>

FrameA == [cv |-> TRUE, tf |-> TRUE, t |-> <<1250, 250, 750>>, rot |-> <<-1, -1, 1>>,
           cols |-> 9, rows |-> 2, data |-> Image]
FrameB == [FrameA EXCEPT !.t = <<1250, 250, 1250>>]
FrameNoTf == [FrameA EXCEPT !.tf = FALSE]
FrameNoCv == [FrameA EXCEPT !.cv = FALSE]

Frames == {FrameA, FrameB, FrameNoTf, FrameNoCv}

\* The images of the projection check: every size up to MaxSide x MaxSide.
\* The samples at the positions (row-major, from 1) in `zero` are 0, every
\* other sample on a multiple of four in both directions is a return of its
\* own range, and all remaining samples are `rest`.
OnGrid(cols, p) == ((p - 1) % cols) % 4 = 0 /\ ((p - 1) \div cols) % 4 = 0

ImageOf(cols, rows, zero, rest) ==
    [p \in 1 .. cols * rows |->
        IF p \in zero THEN 0 ELSE IF OnGrid(cols, p) THEN 100 * p ELSE rest]

ProjectionFrames ==
    UNION {{[FrameA EXCEPT !.cols = c, !.rows = r, !.data = ImageOf(c, r, z, rest)] :
               z \in SUBSET {p \in 1 .. c * r : OnGrid(c, p)}, rest \in {0, 9999}} :
           c \in 1 .. MaxSide, r \in 1 .. MaxSide}
Goals == {<<0, 0, 0>>, <<50, 0, 0>>}
Positions == {<<50, 0, 0>>}

-----------------------------------------------------------------------------
(* The flight node (src/src/visual_control/takeoff_n_land.cpp).            *)
(*                                                                         *)
(* Units.  Positions are integers in tenths of a metre, angles in          *)
(* hundredths of a radian, times in periods of the rate timer (1/ROS_RATE  *)
(* seconds).  A pose is [x, y, z, yaw].  One step of a loop is one pass    *)
(* through its body: what it requests and publishes, the callbacks         *)
(* ros::spinOnce() runs, and rate.sleep().                                 *)

FLIGHT_ALTITUDE == 10
ROS_RATE == 20
MAX_ATTEMPTS == 100
PrimingSetpoints == 20

\* ros::Duration(n) in periods of the rate timer.
Duration(n) == n * ROS_RATE

\* A time difference grows by one period per rate.sleep(); it is kept up to
\* `cap`, the first value beyond every comparison made with it.
Tick(x, cap) == IF x < cap THEN x + 1 ELSE cap

ZeroPose == [x |-> 0, y |-> 0, z |-> 0, yaw |-> 0]
NoMarker == [x |-> 0, y |-> 0, z |-> 0, rad |-> 0]
NoState == [connected |-> FALSE, armed |-> FALSE, mode |-> ""]

\* ros::Time::now() - last_request > ros::Duration(5.0)
Overdue == elapsed > Duration(5)

\* ros::Time::now() - marker_position.header.stamp < ros::Duration(1.0)
MarkerSeen == marker_age < Duration(1)

\* The target position marker_position_cb looks up: 0.6 m in front of the
\* marker, which the camera sees at (x, y, z) right, down and ahead of the
\* vehicle; lines 59-89, for a vehicle and a marker that are not rotated.
Target(lp, m) == [x |-> lp.x + m.z - 6, y |-> lp.y - m.x, z |-> lp.z - m.y]

\* marker_position_cb: the setpoint position becomes the target when the
\* transform lookup succeeds, and stays when it throws; lines 85-97.
marker_position_cb(sp, lp, mk) ==
    IF mk # <<>> /\ mk[1].tf
    THEN [sp EXCEPT !.x = Target(lp, mk[1]).x, !.y = Target(lp, mk[1]).y,
                    !.z = Target(lp, mk[1]).z]
    ELSE sp

\* The tail of every loop body: setpoint_pos_pub.publish (when the body has
\* one), ros::spinOnce() and rate.sleep().  `sp` is the setpoint the body
\* leaves, `pub` what it publishes (<<>> when nothing), `req` the services it
\* called, `el` the time since last_request after them, `st` and `mk` the
\* state and marker messages spinOnce delivers (<<>> when none), `lp` the
\* position message.  After a shutdown spinOnce calls nothing.
Cycle(phase, sp, pub, req, el, st, mk, lp) ==
    /\ cycle' = [phase |-> phase, published |-> pub, requests |-> req,
                 primed |-> primed,
                 nth |-> IF phase # "offboardMode_while" THEN 0
                         ELSE IF req = {} THEN cycle.nth ELSE 1 - cycle.nth]
    /\ primed' = IF pub = <<>> THEN primed ELSE Tick(primed, PrimingSetpoints)
    /\ quiet' = IF req \cap {"set_mode", "arming"} # {} THEN 1
                ELSE IF quiet = 0 THEN 0 ELSE Tick(quiet, Duration(5) + 1)
    /\ elapsed' = Tick(el, Duration(5) + 1)
    /\ current_state' = IF ok /\ st # <<>> THEN st[1] ELSE current_state
    /\ local_position_NWU' = IF ok THEN lp ELSE local_position_NWU
    /\ marker_position' = IF ok /\ mk # <<>>
                          THEN [x |-> mk[1].x, y |-> mk[1].y, z |-> mk[1].z,
                                rad |-> mk[1].rad]
                          ELSE marker_position
    /\ marker_age' = IF ok /\ mk # <<>> THEN 1 ELSE Tick(marker_age, Duration(1))
    /\ setpoint_pos_NWU' = IF ok THEN marker_position_cb(sp, lp, mk) ELSE sp

\* The state messages one spinOnce can deliver while the controller is in
\* state f: the latest one, or none when the stream may lag.
StateInputs(f, lossy) == IF lossy THEN {<<>>, <<f>>} ELSE {<<f>>}

-----------------------------------------------------------------------------
(* main of the flight node, lines 119-163 *)

\* while(ros::ok() && current_state.connected), line 141
Waiting == ok /\ current_state.connected

\* The wait loop of main, lines 140-145, and the call of offboardMode.
main_wait(e) ==
    /\ fpc = "main"
    /\ IF Waiting
       THEN /\ \E st \in StateInputs(fcu, e.lossy), mk \in e.markers, lp \in e.positions :
                 Cycle("main", setpoint_pos_NWU, <<>>, {}, elapsed, st, mk, lp)
            /\ UNCHANGED <<fpc, loop_i, loop_j, ok, fcu, pose_NWU>>
       ELSE /\ fpc' = "offboardMode"
            /\ UNCHANGED <<loop_i, loop_j, ok, fcu, current_state, local_position_NWU,
                           marker_position, marker_age, setpoint_pos_NWU, pose_NWU,
                           elapsed, cycle, primed, quiet>>
    /\ UNCHANGED planner

\* Mutant of offboardMode: the function goes straight to the loop that sends
\* the requests, without the priming loop and without setting last_request.
offboardMode_NoPriming ==
    /\ fpc = "offboardMode"
    /\ setpoint_pos_NWU' = local_position_NWU
    /\ fpc' = "offboardMode_while"
    /\ UNCHANGED <<loop_i, loop_j, ok, fcu, current_state, local_position_NWU,
                   marker_position, marker_age, pose_NWU, elapsed, cycle, primed,
                   quiet>>
    /\ UNCHANGED planner

\* offboardMode up to its first loop: lines 165-177.
offboardMode ==
    /\ fpc = "offboardMode"
    /\ setpoint_pos_NWU' = local_position_NWU
    /\ loop_i' = PrimingSetpoints
    /\ fpc' = "offboardMode_for"
    /\ UNCHANGED <<loop_j, ok, fcu, current_state, local_position_NWU,
                   marker_position, marker_age, pose_NWU, elapsed, cycle, primed,
                   quiet>>
    /\ UNCHANGED planner

\* for(int i = 20; ros::ok() && i > 0; --i), lines 177-181, and lines 183-188.
offboardMode_for(e) ==
    /\ fpc = "offboardMode_for"
    /\ IF ok /\ loop_i > 0
       THEN /\ \E st \in StateInputs(fcu, e.lossy), mk \in e.markers, lp \in e.positions :
                 Cycle("offboardMode_for", setpoint_pos_NWU, <<setpoint_pos_NWU>>, {},
                       elapsed, st, mk, lp)
            /\ loop_i' = loop_i - 1
            /\ UNCHANGED <<fpc, loop_j, ok, fcu, pose_NWU>>
       ELSE /\ fpc' = "offboardMode_while"
            /\ loop_i' = 0
            /\ elapsed' = 0
            /\ UNCHANGED <<loop_j, ok, fcu, current_state, local_position_NWU,
                           marker_position, marker_age, setpoint_pos_NWU, pose_NWU,
                           cycle, primed, quiet>>
    /\ UNCHANGED planner

\* while(ros::ok() && !current_state.armed), line 191
Arming == ok /\ ~current_state.armed

\* The condition of the set_mode request, line 192.
WantsMode == current_state.mode # "OFFBOARD" /\ Overdue

\* The same comparison made by line 199, with a later reading of the clock:
\* when line 192 read exactly 5 seconds, the clock may have moved on (`late`).
OverdueLater(late) == Overdue \/ (late /\ elapsed = Duration(5))

\* The condition of the arming request, lines 198-199.
WantsArming(late) == ~WantsMode /\ ~current_state.armed /\ OverdueLater(late)

\* One pass of the loop that changes to offboard mode and arms: lines 191-209.
\* The controller may accept or refuse a request (`acc`).
offboardMode_while(e) ==
    /\ fpc = "offboardMode_while"
    /\ IF Arming
       THEN \E acc \in e.accepts, late \in e.lates :
              LET req == (IF WantsMode THEN {"set_mode"} ELSE {})
                           \cup (IF WantsArming(late) THEN {"arming"} ELSE {})
                  f   == [fcu EXCEPT
                            !.mode = IF "set_mode" \in req /\ acc THEN "OFFBOARD" ELSE @,
                            !.armed = IF "arming" \in req /\ acc THEN TRUE ELSE @]
              IN  /\ fcu' = f
                  /\ \E st \in StateInputs(f, e.lossy), mk \in e.markers, lp \in e.positions :
                        Cycle("offboardMode_while", setpoint_pos_NWU,
                              <<setpoint_pos_NWU>>, req,
                              IF req = {} THEN elapsed ELSE 0, st, mk, lp)
                  /\ UNCHANGED <<fpc, loop_i, loop_j, ok, pose_NWU>>
       ELSE /\ fpc' = "takeOff"
            /\ UNCHANGED <<loop_i, loop_j, ok, fcu, current_state, local_position_NWU,
                           marker_position, marker_age, setpoint_pos_NWU, pose_NWU,
                           elapsed, cycle, primed, quiet>>
    /\ UNCHANGED planner

\* ros::shutdown(): from now on ros::ok() is false.
Shutdown ==
    /\ ok
    /\ fpc # "done"
    /\ ok' = FALSE
    /\ UNCHANGED <<fpc, loop_i, loop_j, fcu, current_state, local_position_NWU,
                   marker_position, marker_age, setpoint_pos_NWU, pose_NWU, elapsed,
                   cycle, primed, quiet>>
    /\ UNCHANGED planner

\* takeOff up to its loop: lines 213-226.
takeOff ==
    /\ fpc = "takeOff"
    /\ pose_NWU' = [x |-> 20, y |-> 20,
                    z |-> local_position_NWU.z + FLIGHT_ALTITUDE,
                    yaw |-> local_position_NWU.yaw]
    /\ loop_i' = 0
    /\ fpc' = "takeOff_for"
    /\ UNCHANGED <<loop_j, ok, fcu, current_state, local_position_NWU,
                   marker_position, marker_age, setpoint_pos_NWU, elapsed, cycle,
                   primed, quiet>>
    /\ UNCHANGED planner

\* What the loop of takeOff publishes, line 227.
TakeOffSetpoint == setpoint_pos_NWU

\* for(int i = 0; ros::ok() && i < 10 * ROS_RATE; ++i), lines 226-230.
takeOff_for(e) ==
    /\ fpc = "takeOff_for"
    /\ IF ok /\ loop_i < 10 * ROS_RATE
       THEN /\ \E st \in StateInputs(fcu, e.lossy), mk \in e.markers, lp \in e.positions :
                 Cycle("takeOff_for", setpoint_pos_NWU, <<TakeOffSetpoint>>, {},
                       elapsed, st, mk, lp)
            /\ loop_i' = loop_i + 1
            /\ UNCHANGED <<fpc, loop_j, ok, fcu, pose_NWU>>
       ELSE /\ fpc' = "turnTowardsMarker_for"
            /\ loop_i' = 0
            /\ loop_j' = 0
            /\ UNCHANGED <<ok, fcu, current_state, local_position_NWU,
                           marker_position, marker_age, setpoint_pos_NWU, pose_NWU,
                           elapsed, cycle, primed, quiet>>
    /\ UNCHANGED planner

\* What a pass without a recent marker publishes: nothing, lines 264-268
\* and 299-304.
NoMarkerCycle == <<>>

\* One pass of the outer loop of turnTowardsMarker, lines 240-269: leave when
\* headed towards the marker, start sending the turned setpoint, or wait.
turnTowardsMarker_for(e) ==
    /\ fpc = "turnTowardsMarker_for"
    /\ IF ok /\ loop_j < 5 * ROS_RATE
       THEN IF MarkerSeen
            THEN /\ IF Abs(marker_position.rad) < 10
                    THEN /\ fpc' = "approachMarker_for"
                         /\ loop_j' = 0
                         /\ UNCHANGED setpoint_pos_NWU
                    ELSE /\ fpc' = "turnTowardsMarker_send"
                         /\ setpoint_pos_NWU' =
                               [x |-> local_position_NWU.x, y |-> local_position_NWU.y,
                                z |-> local_position_NWU.z,
                                yaw |-> local_position_NWU.yaw + marker_position.rad]
                         /\ UNCHANGED loop_j
                 /\ loop_i' = 0
                 /\ UNCHANGED <<ok, fcu, current_state, local_position_NWU,
                                marker_position, marker_age, pose_NWU, elapsed, cycle,
                                primed, quiet>>
            ELSE /\ \E st \in StateInputs(fcu, e.lossy), mk \in e.markers, lp \in e.positions :
                      Cycle("turnTowardsMarker_for", setpoint_pos_NWU, NoMarkerCycle,
                            {}, elapsed, st, mk, lp)
                 /\ loop_j' = loop_j + 1
                 /\ UNCHANGED <<fpc, loop_i, ok, fcu, pose_NWU>>
       ELSE /\ fpc' = "approachMarker_for"
            /\ loop_i' = 0
            /\ loop_j' = 0
            /\ UNCHANGED <<ok, fcu, current_state, local_position_NWU,
                           marker_position, marker_age, setpoint_pos_NWU, pose_NWU,
                           elapsed, cycle, primed, quiet>>
    /\ UNCHANGED planner

\* The inner loop of turnTowardsMarker, lines 259-263, and ++j.
turnTowardsMarker_send(e) ==
    /\ fpc = "turnTowardsMarker_send"
    /\ IF ok /\ loop_i < 5 * ROS_RATE
       THEN /\ \E st \in StateInputs(fcu, e.lossy), mk \in e.markers, lp \in e.positions :
                 Cycle("turnTowardsMarker_send", setpoint_pos_NWU,
                       <<setpoint_pos_NWU>>, {}, elapsed, st, mk, lp)
            /\ loop_i' = loop_i + 1
            /\ UNCHANGED <<fpc, loop_j, ok, fcu, pose_NWU>>
       ELSE /\ fpc' = "turnTowardsMarker_for"
            /\ loop_i' = 0
            /\ loop_j' = loop_j + 1
            /\ UNCHANGED <<ok, fcu, current_state, local_position_NWU,
                           marker_position, marker_age, setpoint_pos_NWU, pose_NWU,
                           elapsed, cycle, primed, quiet>>
    /\ UNCHANGED planner

\* One pass of the first loop of approachMarker, lines 281-305.
approachMarker_for(e) ==
    /\ fpc = "approachMarker_for"
    /\ IF ok /\ loop_j < MAX_ATTEMPTS /\ ~(MarkerSeen /\ marker_position.z < 8)
       THEN /\ \E st \in StateInputs(fcu, e.lossy), mk \in e.markers, lp \in e.positions :
                 Cycle("approachMarker_for", setpoint_pos_NWU,
                       IF MarkerSeen THEN <<setpoint_pos_NWU>> ELSE NoMarkerCycle,
                       {}, elapsed, st, mk, lp)
            /\ loop_j' = loop_j + 1
            /\ UNCHANGED <<fpc, loop_i, ok, fcu, pose_NWU>>
       ELSE /\ fpc' = "approachMarker_hover"
            /\ loop_i' = 0
            /\ loop_j' = 0
            /\ UNCHANGED <<ok, fcu, current_state, local_position_NWU,
                           marker_position, marker_age, setpoint_pos_NWU, pose_NWU,
                           elapsed, cycle, primed, quiet>>
    /\ UNCHANGED planner

\* Hover for 3 seconds before landing: lines 308-312.
approachMarker_hover(e) ==
    /\ fpc = "approachMarker_hover"
    /\ IF ok /\ loop_i < 3 * ROS_RATE
       THEN /\ \E st \in StateInputs(fcu, e.lossy), mk \in e.markers, lp \in e.positions :
                 Cycle("approachMarker_hover", setpoint_pos_NWU,
                       <<setpoint_pos_NWU>>, {}, elapsed, st, mk, lp)
            /\ loop_i' = loop_i + 1
            /\ UNCHANGED <<fpc, loop_j, ok, fcu, pose_NWU>>
       ELSE /\ fpc' = "land_while"
            /\ loop_i' = 0
            /\ UNCHANGED <<loop_j, ok, fcu, current_state, local_position_NWU,
                           marker_position, marker_age, setpoint_pos_NWU, pose_NWU,
                           elapsed, cycle, primed, quiet>>
    /\ UNCHANGED planner

\* One call of the land service, and the loop body when it failed: lines
\* 331-336.  The call fails after a shutdown.
land_while(e) ==
    /\ fpc = "land_while"
    /\ \E success \in BOOLEAN :
         IF ok /\ success
         THEN /\ fpc' = "land_for"
              /\ cycle' = [cycle EXCEPT !.requests = {"land"}, !.published = <<>>,
                                        !.phase = "land"]
              /\ UNCHANGED <<loop_i, loop_j, ok, fcu, current_state,
                             local_position_NWU, marker_position, marker_age,
                             setpoint_pos_NWU, pose_NWU, elapsed, primed, quiet>>
         ELSE /\ \E st \in StateInputs(fcu, e.lossy), mk \in e.markers, lp \in e.positions :
                   Cycle("land_while", setpoint_pos_NWU, <<setpoint_pos_NWU>>,
                         {"land"}, elapsed, st, mk, lp)
              /\ UNCHANGED <<fpc, loop_i, loop_j, ok, fcu, pose_NWU>>
    /\ UNCHANGED planner

\* Wait 5 seconds for proper landing: lines 340-345.
land_for(e) ==
    /\ fpc = "land_for"
    /\ IF ok /\ loop_i < 5 * ROS_RATE
       THEN /\ \E st \in StateInputs(fcu, e.lossy), mk \in e.markers, lp \in e.positions :
                 Cycle("land_for", setpoint_pos_NWU, <<>>, {}, elapsed, st, mk, lp)
            /\ loop_i' = loop_i + 1
            /\ UNCHANGED <<fpc, loop_j, ok, fcu, pose_NWU>>
       ELSE /\ fpc' = "land_disarm"
            /\ loop_i' = 0
            /\ UNCHANGED <<loop_j, ok, fcu, current_state, local_position_NWU,
                           marker_position, marker_age, setpoint_pos_NWU, pose_NWU,
                           elapsed, cycle, primed, quiet>>
    /\ UNCHANGED planner

\* One pass of the disarm loop, lines 347-356, and the return of main.
land_disarm(e) ==
    /\ fpc = "land_disarm"
    /\ IF ok /\ current_state.armed
       THEN \E acc \in BOOLEAN :
              LET req == IF Overdue THEN {"disarm"} ELSE {}
                  f   == [fcu EXCEPT !.armed = IF req # {} /\ acc THEN FALSE ELSE @]
              IN  /\ fcu' = f
                  /\ \E st \in StateInputs(f, e.lossy), mk \in e.markers, lp \in e.positions :
                        Cycle("land_disarm", setpoint_pos_NWU, <<>>, req,
                              IF req = {} THEN elapsed ELSE 0, st, mk, lp)
                  /\ UNCHANGED <<fpc, loop_i, loop_j, ok, pose_NWU>>
       ELSE /\ fpc' = "done"
            /\ UNCHANGED <<loop_i, loop_j, ok, fcu, current_state, local_position_NWU,
                           marker_position, marker_age, setpoint_pos_NWU, pose_NWU,
                           elapsed, cycle, primed, quiet>>
    /\ UNCHANGED planner

-----------------------------------------------------------------------------
(* Inputs of the flight node *)

\* The states the flight controller can be in when the node starts.
Fcus == [connected : BOOLEAN, armed : BOOLEAN, mode : {"MANUAL", "OFFBOARD"}]

\* A controller that is connected, in manual mode and disarmed.
FcuReady == [connected |-> TRUE, armed |-> FALSE, mode |-> "MANUAL"]

\* The position the controller reports: on the ground, 1 m north of the origin.
Home == [x |-> 10, y |-> 0, z |-> 0, yaw |-> 0]

\* The marker seen 3 m ahead and 1 m to the right (rad = -atan2f(1, 3)), and
\* seen straight ahead at 0.5 m; `tf` says whether the lookup of the target
\* position succeeds.
Markers ==
    {[x |-> 10, y |-> 0, z |-> 30, rad |-> -32, tf |-> TRUE],
     [x |-> 0, y |-> 0, z |-> 5, rad |-> 0, tf |-> FALSE]}

\* The node with a controller that may refuse requests, a state stream that
\* may lag and a clock that may move on between two readings; no marker in
\* sight.
Bench == [lossy |-> TRUE, accepts |-> BOOLEAN, lates |-> BOOLEAN,
          markers |-> {<<>>}, positions |-> {Home}]

\* The node with a controller that accepts every request, and a marker that
\* may come into sight at any time.
Mission == [lossy |-> FALSE, accepts |-> {TRUE}, lates |-> {FALSE},
            markers |-> {<<>>} \cup {<<m>> : m \in Markers}, positions |-> {Home}]

-----------------------------------------------------------------------------
(* Specifications *)

\* The flight node when main starts, lines 43-53 and 100, with the flight
\* controller in one of the states `fcus`.
FlightInit(fcus) ==
    /\ fpc = "main"
    /\ loop_i = 0
    /\ loop_j = 0
    /\ ok = TRUE
    /\ fcu \in fcus
    /\ current_state = NoState
    /\ local_position_NWU = ZeroPose
    /\ marker_position = NoMarker
    /\ marker_age = Duration(1)
    /\ setpoint_pos_NWU = ZeroPose
    /\ pose_NWU = ZeroPose
    /\ elapsed = Duration(5) + 1
    /\ cycle = [phase |-> "none", published |-> <<>>, requests |-> {}, primed |-> 0,
                nth |-> 0]
    /\ primed = 0
    /\ quiet = 0

\* The state when main enters its loop: lines 48, 56-62 and 220-234.
PlannerInit ==
    /\ pc = "sleep"
    /\ todo = 0
    /\ queue = <<>>
    /\ cbpc = "idle"
    /\ cloud1 = <<>>
    /\ origin = Zero3
    /\ initialized = FALSE
    /\ edrb = EmptyBuffer
    /\ endpoint_position = Zero3
    /\ local_position = Zero3
    /\ traj = NoTraj
    /\ spline_optimization = NoSpline
    /\ published = 0
    /\ allocs = 1
    /\ arrived = [t \in Topics |-> 0]
    /\ handled = <<>>
    /\ dropped = {}
    /\ ran = [t \in Topics |-> 0]
    /\ seenAt = <<>>
    /\ rotated = {}
    /\ before = EmptyBuffer
    /\ moves = 0
    /\ called = [setOffset |-> 0, insertPointCloud |-> 0]

Init == PlannerInit /\ FlightInit({FcuReady})

ReceiveGoal == \E g \in Goals : Receive("goal", g, MaxArrivals)
ReceivePosition == \E p \in Positions : Receive("position", p, MaxArrivals)
ReceiveDepth == \E f \in Frames : Receive("depth", f, MaxArrivals)

Next ==
    \/ ReceiveGoal
    \/ ReceivePosition
    \/ ReceiveDepth
    \/ r_sleep
    \/ endpoint_position_cb
    \/ local_position_cb
    \/ depth_cam_cb
    \/ depth_cam_cb_while
    \/ depth_cam_cb_insert
    \/ spinOnce_returns

Spec == Init /\ [][Next]_vars

\* A burst of goals, more than the subscription holds: the goal moves one
\* step along x with every message.
BurstGoal(i) == <<i, 0, 0>>

ReceiveGoalBurst == Receive("goal", BurstGoal(arrived["goal"] + 1), MaxBurst)

NextGoalBurst ==
    \/ ReceiveGoalBurst
    \/ r_sleep
    \/ endpoint_position_cb
    \/ spinOnce_returns

SpecGoalBurst == Init /\ [][NextGoalBurst]_vars

\* A burst of depth frames, more than the subscription holds: the camera
\* alternates between two poses.
BurstFrame(i) == IF i % 2 = 1 THEN FrameA ELSE FrameB

ReceiveDepthBurst == Receive("depth", BurstFrame(arrived["depth"] + 1), MaxBurst)

NextDepthBurst ==
    \/ ReceiveDepthBurst
    \/ r_sleep
    \/ depth_cam_cb
    \/ depth_cam_cb_while
    \/ depth_cam_cb_insert
    \/ spinOnce_returns

SpecDepthBurst == Init /\ [][NextDepthBurst]_vars

\* One depth image of any size and content, as the first frame of the node.
ReceiveImage == \E f \in ProjectionFrames : Receive("depth", f, 1)

NextProjection ==
    \/ ReceiveImage
    \/ r_sleep
    \/ depth_cam_cb
    \/ depth_cam_cb_insert
    \/ spinOnce_returns

SpecProjection == Init /\ [][NextProjection]_vars

\* The frame of FrameA seen from the voxel at displacement d from the centre
\* the volume has once FrameA was the first frame.
TargetFrame(d) ==
    [FrameA EXCEPT !.t = [i \in Axes |-> FrameA.t[i] + Res * (N_2 + d[i])]]

Shifts == (-MaxShift .. MaxShift) \X (-MaxShift .. MaxShift) \X (-MaxShift .. MaxShift)

\* A first frame, then a frame from any voxel near the centre or from the
\* voxel of the first frame, half the volume's edge away from it.
ReceiveFirstFrame == arrived["depth"] = 0 /\ Receive("depth", FrameA, 2)

ReceiveTargetFrame ==
    /\ arrived["depth"] = 1
    /\ \E f \in {TargetFrame(d) : d \in Shifts} \cup {FrameA} : Receive("depth", f, 2)

NextRecenter ==
    \/ ReceiveFirstFrame
    \/ ReceiveTargetFrame
    \/ r_sleep
    \/ depth_cam_cb
    \/ depth_cam_cb_while
    \/ depth_cam_cb_insert
    \/ spinOnce_returns

\* depth_cam_cb runs on the thread of main: once called, it keeps executing.
SpecRecenter ==
    /\ Init
    /\ [][NextRecenter]_vars
    /\ WF_vars(depth_cam_cb_while)
    /\ WF_vars(depth_cam_cb_insert)

\* The flight node up to the end of offboardMode.
InitOffboard == PlannerInit /\ FlightInit(Fcus)

NextOffboard ==
    \/ main_wait(Bench)
    \/ offboardMode
    \/ offboardMode_for(Bench)
    \/ offboardMode_while(Bench)
    \/ Shutdown

SpecOffboard == InitOffboard /\ [][NextOffboard]_vars

\* The flight node from start to end, never shut down.
NextFlight ==
    \/ main_wait(Mission)
    \/ offboardMode
    \/ offboardMode_for(Mission)
    \/ offboardMode_while(Mission)
    \/ takeOff
    \/ takeOff_for(Mission)
    \/ turnTowardsMarker_for(Mission)
    \/ turnTowardsMarker_send(Mission)
    \/ approachMarker_for(Mission)
    \/ approachMarker_hover(Mission)
    \/ land_while(Mission)
    \/ land_for(Mission)
    \/ land_disarm(Mission)

SpecFlight == Init /\ [][NextFlight]_vars

-----------------------------------------------------------------------------
(* Properties *)

Last(q) == q[Len(q)]

\* The step is a call of the callback of `topic`.
Runs(topic) == handled' # handled /\ Head(queue).topic = topic

\* C1. Dropped-frame tolerance: the call of depth_cam_cb for a frame whose
\* transform lookup fails returns at once and leaves the volume (offset and
\* voxels), `initialized` and the callback's position as they were, so the
\* next frame meets the state it would have met without the failed one.
C1_DroppedFrame ==
    [][(Runs("depth") /\ ~Head(queue).msg.tf)
          => /\ edrb' = edrb
             /\ initialized' = initialized
             /\ cbpc' = "idle"
             /\ seenAt' = seenAt]_vars

\* C1 witness: a frame without transform has just been dropped by a node
\* whose volume already holds occupied voxels.
C1_Witness ==
    /\ handled # <<>>
    /\ Last(handled).topic = "depth"
    /\ Last(handled).msg.cv
    /\ ~Last(handled).msg.tf
    /\ initialized
    /\ edrb.occupied # {}
    /\ cbpc = "idle"

\* C2. Recenter correctness: whenever insertPointCloud is about to be called,
\* the volume centre is the voxel of the frame's sensor origin.
C2_CenterAtInsert == AtInsert => getVolumeCenter(edrb) = getIdx(origin)

\* The messages of `topic` among those handled, and among those waiting.
Of(q, topic) == SelectSeq(q, LAMBDA m : m.topic = topic)

\* The ids the subscription of `topic` discarded.
Lost(topic) == {d[2] : d \in {e \in dropped : e[1] = topic}}

\* The messages of `topic` are handled in arrival order, none is skipped
\* except by a full queue, at most QueueSize wait, and every discarded message
\* was preceded by QueueSize arrivals that are not discarded.
QueuedInOrder(topic) ==
    LET all == Of(handled, topic) \o Of(queue, topic)
    IN  /\ \A i, j \in 1 .. Len(all) : i < j => all[i].id < all[j].id
        /\ {all[i].id : i \in 1 .. Len(all)} = (1 .. arrived[topic]) \ Lost(topic)
        /\ Pending(queue, topic) <= QueueSize
        /\ Lost(topic) # {} => Cardinality(Lost(topic)) + QueueSize <= arrived[topic]

\* C3 as claimed. Goal updates are not queued: one spinOnce builds at most one
\* seed trajectory, whatever number of goals arrived before it.
C3_OneSeedPerSpin == ran["goal"] <= 1

\* C3 as amended. Goals are queued, up to QueueSize of them: every waiting goal
\* gets its callback in arrival order, each call installing a seed trajectory,
\* and the installed trajectory is that of the goal handled last.
C3_GoalsQueued ==
    /\ QueuedInOrder("goal")
    /\ Of(handled, "goal") # <<>>
          => /\ traj.set
             /\ traj.goal = Last(Of(handled, "goal")).msg
             /\ endpoint_position = traj.goal
             /\ spline_optimization.traj = traj

\* C3 witness: one spinOnce has built several seed trajectories, after a full
\* queue discarded the oldest goal.
C3_Witness ==
    /\ ran["goal"] >= 2
    /\ Lost("goal") # {}
    /\ traj.set

\* C4 as claimed. At most one unhandled depth frame waits at any time.
C4_AtMostOnePending == Pending(queue, "depth") <= 1

\* C4 as amended. At most QueueSize unhandled depth frames wait; frames are
\* handled in arrival order and a waiting frame is discarded only by a full
\* queue, so a frame is handled at most QueueSize - 1 frames stale.
C4_FramesQueued ==
    /\ QueuedInOrder("depth")
    /\ \A i \in Indices(queue, "depth") : arrived["depth"] - queue[i].id < QueueSize

\* C4 witness: QueueSize frames wait, the oldest arrival has been discarded,
\* and the volume has ingested frames.
C4_Witness ==
    /\ Pending(queue, "depth") = QueueSize
    /\ Lost("depth") # {}
    /\ edrb.occupied # {}

\* C5. Reseeding: a call of the goal callback leaves the seed trajectory
\* computed from the local position at the call and the new goal, and a
\* spline state newly built from that seed with dt, num_opt_points, the shared
\* distance buffer, distance_threshold and limits.
C5_Reseeded ==
    [][Runs("goal")
          => /\ endpoint_position' = Head(queue).msg
             /\ traj'.set
             /\ traj'.start = local_position
             /\ traj'.goal = Head(queue).msg
             /\ traj'.limits = <<max_velocity, max_acceleration, 0, 0>>
             /\ spline_optimization' =
                   [set |-> TRUE, traj |-> traj', dt |-> dt,
                    num_opt_points |-> num_opt_points, distance_buffer |-> "edrb",
                    distance_threshold |-> distance_threshold,
                    limits |-> <<max_velocity, max_acceleration, 0, 0>>]]_vars

\* C5 witness: a second goal has replaced the trajectory of a first one, the
\* vehicle having reported a position in between.
C5_Witness ==
    /\ Cardinality({i \in 1 .. Len(handled) : handled[i].topic = "goal"}) >= 2
    /\ Last(handled).topic = "goal"
    /\ traj.set
    /\ traj.start = <<50, 0, 0>>
    /\ traj.goal = <<0, 0, 0>>
    /\ spline_optimization.traj = traj

\* C6. InfeasibleSeed: a call of the goal callback whose seed computation
\* fails leaves the installed trajectory and spline state as they were.
C6_FailedSeedNotInstalled ==
    [][(Runs("goal")
          /\ ~computeTrajectory(local_position, Head(queue).msg, limits).feasible)
          => UNCHANGED <<traj, spline_optimization>>]_vars

\* C7. Setpoint output: every cycle of the main loop that ends with a spline
\* state installed publishes one position setpoint.
C7_SetpointEveryCycle ==
    [][(pc = "spin" /\ pc' = "sleep" /\ spline_optimization.set)
          => published' = published + 1]_vars

\* C8. No torn recenter: no callback starts, and nothing the goal and position
\* callbacks write changes, while depth_cam_cb is inside its recenter loop or
\* at its insertion.
C8_NoTornRecenter ==
    [][cbpc # "idle"
          => /\ handled' = handled
             /\ UNCHANGED <<endpoint_position, local_position, traj,
                            spline_optimization>>]_vars

\* C8 witness: the recenter loop is running while a goal or a position message
\* waits for its callback in the same spinOnce.
C8_Witness ==
    /\ cbpc = "while"
    /\ Diff # Zero3
    /\ todo > 0
    /\ Head(queue).topic \in {"goal", "position"}

\* C9. Stale-layer clearing: every slot that reports occupied stands for the
\* world voxel at which the occupancy was observed.
C9_NoStaleOccupancy ==
    \A s \in edrb.occupied : WorldOf(edrb, s) = seenAt[s]

\* C9 witness: a slot was reset while occupied, now stands for another world
\* voxel than the one observed, and reports unknown; other voxels are occupied.
C9_Witness ==
    /\ cbpc = "idle"
    /\ edrb.occupied # {}
    /\ \E s \in rotated : s \notin edrb.occupied /\ s \notin edrb.free

\* C10. Grid bounding: one ring buffer is ever constructed, and every voxel in
\* use is one of the (2^POW)^3 slots of the cube of edge 2^POW.
C10_GridBounded ==
    /\ allocs = 1
    /\ \A s \in edrb.occupied \cup edrb.free : s \in Slots

\* C10 witness: the volume has moved away from where it was first placed and
\* holds occupied and free voxels.
C10_Witness ==
    /\ cbpc = "idle"
    /\ edrb.offset # getIdx(FrameA.t)
    /\ edrb.offset # getIdx(FrameB.t)
    /\ edrb.occupied # {}
    /\ edrb.free # {}

\* The step is the insertion that ends a call of depth_cam_cb.
Inserts == AtInsert /\ cbpc' = "idle"

\* The depth frame being ingested is the depth frame handled before it: the
\* same image with the same camera pose, twice in a row.
SameFrameAgain ==
    LET d == Of(handled, "depth")
    IN  /\ Len(d) >= 2
        /\ d[Len(d)].msg = d[Len(d) - 1].msg
        /\ ~FrameDropped(d[Len(d)].msg)

\* C11. Ray-carving idempotence at frame level: a call of depth_cam_cb for the
\* frame that the call before it ingested leaves the volume (offset, occupied
\* and free voxels) as that earlier call left it, the first frame included.
C11_FrameIdempotent ==
    [][(Inserts /\ SameFrameAgain) => edrb' = before]_vars

\* The pixels of frame f that lie on a multiple of four in both directions and
\* hold a non-zero range sample.
Sample(f, px) == f.data[px[2] * f.cols + px[1] + 1]

GridSamples(f) ==
    {px \in (0 .. f.cols - 1) \X (0 .. f.rows - 1) :
        px[1] % 4 = 0 /\ px[2] % 4 = 0 /\ Sample(f, px) # 0}

\* C12. Depth projection sampling: the cloud built from a depth image holds
\* one point, the projection of that pixel, for every pixel (u, v) with u and
\* v multiples of 4 inside the image and a non-zero sample, and nothing else.
C12_Sampling ==
    cbpc # "idle" =>
        LET f == Last(handled).msg
            S == GridSamples(f)
            P(px) == WorldPoint(f, px[1], px[2], Sample(f, px))
        IN  /\ Len(cloud1) = Cardinality(S)
            /\ \A px \in S : \E k \in 1 .. Len(cloud1) : cloud1[k] = P(px)
            /\ \A k \in 1 .. Len(cloud1) : \E px \in S : cloud1[k] = P(px)

\* C12 witness: a 5 x 5 image in which two of the four pixels the loops visit
\* hold no return and the pixels they skip hold returns gave a cloud of two
\* points.
C12_Witness ==
    /\ cbpc = "insert"
    /\ Last(handled).msg.cols = 5
    /\ Last(handled).msg.rows = 5
    /\ Last(handled).msg.data[2] # 0
    /\ Cardinality(GridSamples(Last(handled).msg)) = 2
    /\ Len(cloud1) = 2

\* The difference between the voxel of the sensor origin and the centre of
\* volume b.
ToTarget(b) == VSub(getIdx(origin), getVolumeCenter(b))

\* C13. Recenter termination: the recenter loop ends; each iteration moves the
\* centre by one layer toward the target on every axis that still differs and
\* leaves the other axes alone; and the iterations made plus the largest
\* per-axis distance still to go is the largest per-axis distance between the
\* target and the centre the loop started from, so the loop makes exactly
\* that many iterations.
C13_RecenterTerminates ==
    /\ [](cbpc = "while" => moves + MaxNorm(ToTarget(edrb)) = MaxNorm(ToTarget(before)))
    /\ [][(cbpc = "while" /\ edrb' # edrb /\ cbpc' = "while")
             => /\ moves' = moves + 1
                /\ \A i \in Axes :
                      getVolumeCenter(edrb')[i] - getVolumeCenter(edrb)[i]
                         = Sign(ToTarget(edrb)[i])]_vars
    /\ (cbpc = "while") ~> (cbpc = "idle")

\* C13 witness: the loop has ended after two iterations for a target two
\* layers away on one axis, one layer the other way on another and none on
\* the third.
C13_Witness ==
    /\ cbpc = "while"
    /\ ToTarget(edrb) = Zero3
    /\ ToTarget(before) = <<2, -1, 0>>
    /\ moves = 2

\* C14. Seed/Spline immutability outside goal changes: every step that is not
\* a call of the goal callback (a call of the position callback, any step of
\* the depth callback, an arrival, the loop of main) leaves `traj` and
\* `spline_optimization` as they were.
C14_SeedImmutable ==
    [][~Runs("goal") => UNCHANGED <<traj, spline_optimization>>]_vars

\* C14 witness: after a goal, a position update that moved the vehicle away
\* from the start of the seed and a depth frame that was ingested, the seed
\* of the goal is still installed.
C14_Witness ==
    /\ Len(handled) = 3
    /\ handled[1].topic = "goal"
    /\ handled[2].topic = "position"
    /\ handled[3].topic = "depth"
    /\ cbpc = "idle"
    /\ called.insertPointCloud = 1
    /\ traj.set
    /\ traj.goal = handled[1].msg
    /\ traj.start # local_position
    /\ spline_optimization.traj = traj

\* The depth frames handled so far that passed both early returns.
Ingested == SelectSeq(Of(handled, "depth"), LAMBDA m : ~FrameDropped(m.msg))

\* C15. The offset of the volume is set directly at most once: by the call of
\* depth_cam_cb for the first frame that has a transform, before any
\* insertPointCloud; that call turns `initialized` from false to true, nothing
\* turns it back, and every other change of the offset is one moveVolume of
\* the recenter loop.
C15_OffsetSetOnce ==
    /\ [](called.setOffset = IF initialized THEN 1 ELSE 0)
    /\ [][called'.setOffset # called.setOffset
             => /\ Runs("depth")
                /\ ~FrameDropped(Head(queue).msg)
                /\ Ingested = <<>>
                /\ called.insertPointCloud = 0
                /\ ~initialized /\ initialized']_vars
    /\ [][initialized => initialized']_vars
    /\ [][(edrb'.offset # edrb.offset /\ called'.setOffset = called.setOffset)
             => /\ cbpc = "while"
                /\ moves' = moves + 1
                /\ edrb' = moveVolume(edrb, ToTarget(edrb))]_vars

\* C15 witness: a frame without transform was dropped, the next frame set the
\* offset, and a third frame moved the volume through the recenter loop.
C15_Witness ==
    /\ Len(Of(handled, "depth")) = 3
    /\ FrameDropped(Of(handled, "depth")[1].msg)
    /\ Len(Ingested) = 2
    /\ cbpc = "idle"
    /\ initialized
    /\ called = [setOffset |-> 1, insertPointCloud |-> 2]
    /\ moves >= 1
    /\ edrb.offset # before.offset

-----------------------------------------------------------------------------
(* Properties of the flight node *)

\* C16. FCU connection wait: main leaves its wait loop for offboardMode only
\* when the reported state says connected (the node not being shut down).
C16_WaitsForConnection ==
    [][(fpc = "main" /\ fpc' # "main" /\ ok) => current_state.connected]_vars

\* The loops that run between the start of offboardMode and the success of
\* the land command.
StreamPhases ==
    {"offboardMode_for", "offboardMode_while", "takeOff_for",
     "turnTowardsMarker_for", "turnTowardsMarker_send", "approachMarker_for",
     "approachMarker_hover", "land_while"}

\* C17. Setpoint stream continuity: every rate cycle between the start of
\* offboardMode and the success of the land command publishes a setpoint.
C17_StreamContinuous ==
    cycle.phase \in StreamPhases => cycle.published # <<>>

\* C18. Take-off target: every rate cycle of takeOff publishes the pose that
\* takeOff assigned: x = y = 2 m, the altitude and orientation of the vehicle
\* at the start of takeOff, the altitude raised by FLIGHT_ALTITUDE.
C18_TakeOffTarget ==
    cycle.phase = "takeOff_for" => cycle.published = <<pose_NWU>>

\* C19. Offboard priming: a rate cycle that sends a set_mode or an arming
\* request comes after 20 published setpoints at least.
C19_PrimedBeforeRequests ==
    cycle.requests \cap {"set_mode", "arming"} # {} => cycle.primed >= 20

\* C19 witness: the arming request was sent, after the 20 setpoints, and the
\* controller reports armed.
C19_Witness ==
    /\ cycle.phase = "offboardMode_while"
    /\ cycle.requests = {"arming"}
    /\ cycle.primed >= 20
    /\ ok
    /\ current_state.armed

\* The step is a rate cycle of the arming loop that sends a request.
Requests ==
    /\ cycle'.phase = "offboardMode_while"
    /\ cycle'.requests # {}
    /\ cycle' # cycle

\* C20. Arming order in offboardMode: a cycle sends an arming request only
\* when the reported mode is OFFBOARD and the vehicle is reported not armed,
\* never together with a set_mode request, and more than 5 seconds (5 *
\* ROS_RATE rate periods) after the request before it.
C20_ArmingOrder ==
    [][Requests
          => /\ "arming" \in cycle'.requests
                   => /\ current_state.mode = "OFFBOARD"
                      /\ ~current_state.armed
                      /\ "set_mode" \notin cycle'.requests
             /\ cycle'.requests \in {{"set_mode"}, {"arming"}}
             /\ quiet = 0 \/ quiet > 5 * ROS_RATE]_vars

=============================================================================
